---------------------------- MODULE Spec2Model ----------------------------
(***************************************************************************)
(* Model of src/project/data_ai_automator.py: the cleaning and             *)
(* transformation pipeline (clean_dataset, apply_transformations), the     *)
(* summarizer call (generate_ai_analysis) and the callers that thread the  *)
(* tables through them (run_full_pipeline, cli_menu).                      *)
(*                                                                         *)
(* A text is a sequence of one-character strings, so that the string       *)
(* functions of the source (strip, re.sub, lower, numeric parsing,         *)
(* comparison) are computed rather than assumed.  A number is an exact     *)
(* fraction n/d in lowest terms (median and mean produce halves).          *)
(* A DataFrame is a record of column names, column dtypes, the row index   *)
(* labels and the rows.                                                    *)
(***************************************************************************)
EXTENDS Integers, Sequences, FiniteSets

VARIABLES
    pc,             \* position of the running program
    choice,         \* menu option being served (cli_menu), 0 when none
    input_file,     \* content of the input path, or NoFile
    csv_file,       \* content of cleaned_output.csv, or NoFile
    chart_file,     \* whether top_products.png exists
    df_raw,         \* DataFrame object returned by load_dataset
    df_clean,       \* DataFrame object the caller holds as df_clean
    df_transformed, \* DataFrame returned by apply_transformations
    grouped,        \* aggregate table returned by apply_transformations
    summary,        \* ProcessingSummary object
    ai_report,      \* text returned by generate_ai_analysis
    chart_path,     \* value returned by generate_bar_chart
    pdf,            \* what export_pdf_report was given, or None
    error,          \* the exception propagating out of the pipeline, or None
    df_reclean,     \* result of a second clean_dataset call
    summary2        \* summary of the second clean_dataset call

vars == <<pc, choice, input_file, csv_file, chart_file, df_raw, df_clean,
          df_transformed, grouped, summary, ai_report, chart_path, pdf, error,
          df_reclean, summary2>>

\* Bound of the model: a table has at most MaxCells cells (rows * columns).
MaxCells == 4

None == [none |-> TRUE]
NoFile == [nofile |-> TRUE]

(***************************************************************************)
(* Characters and texts                                                    *)
(***************************************************************************)
UpperChars == <<"A","B","C","D","E","F","G","H","I","J","K","L","M",
                "N","O","P","Q","R","S","T","U","V","W","X","Y","Z">>
LowerChars == <<"a","b","c","d","e","f","g","h","i","j","k","l","m",
                "n","o","p","q","r","s","t","u","v","w","x","y","z">>
DigitChars == <<"0","1","2","3","4","5","6","7","8","9">>

\* The characters of the model in code point order (Python compares str by
\* code point).
CodeOrder == <<" ", "!", "-">> \o DigitChars \o UpperChars \o <<"_">> \o LowerChars

Range(seq) == {seq[i] : i \in 1..Len(seq)}

IndexOf(seq, x) == CHOOSE i \in 1..Len(seq) : seq[i] = x

Ord(c) == IndexOf(CodeOrder, c)

UpperSet == Range(UpperChars)
DigitSet == Range(DigitChars)
WordSet == Range(DigitChars) \cup Range(UpperChars) \cup Range(LowerChars) \cup {"_"}

IsSpace(c) == c = " "
IsUpper(c) == c \in UpperSet
IsDigit(c) == c \in DigitSet
IsWordChar(c) == c \in WordSet

\* str.lower() on one character and on a text
LowerChar(c) == IF IsUpper(c) THEN LowerChars[IndexOf(UpperChars, c)] ELSE c
Lower(s) == [i \in 1..Len(s) |-> LowerChar(s[i])]

\* s < t for Python str
RECURSIVE TextLess(_, _)
TextLess(s, t) ==
    IF t = <<>> THEN FALSE
    ELSE IF s = <<>> THEN TRUE
    ELSE IF Head(s) = Head(t) THEN TextLess(Tail(s), Tail(t))
    ELSE Ord(Head(s)) < Ord(Head(t))

\* "needle in s"
Contains(s, needle) ==
    \E i \in 0..(Len(s) - Len(needle)) :
        \A j \in 1..Len(needle) : s[i + j] = needle[j]

(***************************************************************************)
(* to_snake_case                                                           *)
(***************************************************************************)
RECURSIVE LStrip(_)
LStrip(s) == IF s # <<>> /\ IsSpace(Head(s)) THEN LStrip(Tail(s)) ELSE s

RECURSIVE RStrip(_)
RStrip(s) ==
    IF s # <<>> /\ IsSpace(s[Len(s)]) THEN RStrip(SubSeq(s, 1, Len(s) - 1)) ELSE s

Strip(s) == RStrip(LStrip(s))

\* re.sub(r"[\s\-]+", "_", s): each maximal run of blanks and hyphens
\* becomes one underscore
RECURSIVE SubSeparators(_, _)
SubSeparators(s, inRun) ==
    IF s = <<>> THEN <<>>
    ELSE IF IsSpace(Head(s)) \/ Head(s) = "-"
         THEN (IF inRun THEN <<>> ELSE <<"_">>) \o SubSeparators(Tail(s), TRUE)
         ELSE <<Head(s)>> \o SubSeparators(Tail(s), FALSE)

\* re.sub(r"[^0-9a-zA-Z_]+", "", s)
RECURSIVE DropNonWord(_)
DropNonWord(s) ==
    IF s = <<>> THEN <<>>
    ELSE (IF IsWordChar(Head(s)) THEN <<Head(s)>> ELSE <<>>) \o DropNonWord(Tail(s))

\* re.sub(r"_+", "_", s)
RECURSIVE CollapseUnderscores(_, _)
CollapseUnderscores(s, inRun) ==
    IF s = <<>> THEN <<>>
    ELSE IF Head(s) = "_"
         THEN (IF inRun THEN <<>> ELSE <<"_">>) \o CollapseUnderscores(Tail(s), TRUE)
         ELSE <<Head(s)>> \o CollapseUnderscores(Tail(s), FALSE)

to_snake_case(name) ==
    Lower(CollapseUnderscores(DropNonWord(SubSeparators(Strip(name), FALSE)), FALSE))

(***************************************************************************)
(* Numbers and cells                                                       *)
(***************************************************************************)
Abs(x) == IF x < 0 THEN -x ELSE x

RECURSIVE GCD(_, _)
GCD(a, b) == IF b = 0 THEN a ELSE GCD(b, a % b)

\* the cell holding the number n/d (d > 0), in lowest terms
Num(n, d) ==
    LET g == IF n = 0 THEN d ELSE GCD(Abs(n), d)
    IN [k |-> "num", n |-> n \div g, d |-> d \div g, s |-> <<>>]

Txt(s) == [k |-> "txt", n |-> 0, d |-> 1, s |-> s]

\* a Missing cell (NaN / None)
NA == [k |-> "na", n |-> 0, d |-> 1, s |-> <<>>]

IsNA(c) == c.k = "na"
IsNum(c) == c.k = "num"
IsTxt(c) == c.k = "txt"

NumLess(a, b) == a.n * b.d < b.n * a.d
NumAdd(a, b) == Num(a.n * b.d + b.n * a.d, a.d * b.d)
NumMul(a, b) == Num(a.n * b.n, a.d * b.d)
NumDivInt(a, m) == Num(a.n, a.d * m)
IsNegative(c) == IsNum(c) /\ c.n < 0
IsPositive(c) == IsNum(c) /\ c.n > 0

\* order of two non-missing cells of one column (numbers by value, texts as str)
CellLess(a, b) ==
    IF IsNum(a) /\ IsNum(b) THEN NumLess(a, b)
    ELSE IF IsTxt(a) /\ IsTxt(b) THEN TextLess(a.s, b.s)
    ELSE IsNum(a) /\ IsTxt(b)

RECURSIVE ParseDigits(_, _)
ParseDigits(s, acc) ==
    IF s = <<>> THEN acc
    ELSE ParseDigits(Tail(s), 10 * acc + (IndexOf(DigitChars, Head(s)) - 1))

IsDigits(s) == s # <<>> /\ \A i \in 1..Len(s) : IsDigit(s[i])

\* whether a text is a decimal integer literal, optionally signed
IsNumericText(s) ==
    \/ IsDigits(s)
    \/ Len(s) > 1 /\ s[1] = "-" /\ IsDigits(Tail(s))

ParseNumber(s) ==
    IF s[1] = "-" THEN Num(-ParseDigits(Tail(s), 0), 1) ELSE Num(ParseDigits(s, 0), 1)

\* pd.to_numeric(..., errors="coerce") on one cell: a number stays, a text is
\* parsed, anything unparsable becomes Missing
ToNumericCell(c) ==
    IF IsNum(c) THEN c
    ELSE IF IsTxt(c) /\ IsNumericText(c.s) THEN ParseNumber(c.s)
    ELSE NA

(***************************************************************************)
(* DataFrames                                                              *)
(***************************************************************************)
\* A DataFrame: names[j] and dtypes[j] describe column j, index[i] is the
\* index label of row i and rows[i][j] its cell in column j.
DataFrame(names, dtypes, index, rows) ==
    [names |-> names, dtypes |-> dtypes, index |-> index, rows |-> rows]

NRows(df) == Len(df.rows)
NCols(df) == Len(df.names)
Column(df, j) == [i \in 1..NRows(df) |-> df.rows[i][j]]
HasColumn(df, name) == name \in Range(df.names)
ColumnPos(df, name) == IndexOf(df.names, name)

\* pd.api.types.is_numeric_dtype / is_object_dtype
is_numeric_dtype(df, j) == df.dtypes[j] = "numeric"
is_object_dtype(df, j) == df.dtypes[j] = "object"

\* the positions of 1..n that are in keep, ascending
RECURSIVE Positions(_, _, _)
Positions(n, keep, i) ==
    IF i > n THEN <<>>
    ELSE (IF i \in keep THEN <<i>> ELSE <<>>) \o Positions(n, keep, i + 1)

\* the rows at the given positions, in that order, with their index labels
TakeRows(df, pos) ==
    [df EXCEPT !.index = [p \in 1..Len(pos) |-> df.index[pos[p]]],
               !.rows = [p \in 1..Len(pos) |-> df.rows[pos[p]]]]

\* boolean indexing df[mask] / df.loc[mask]
SelectRows(df, keep) == TakeRows(df, Positions(NRows(df), keep, 1))

\* df[name] = cells on the column at position j
SetColumn(df, j, dtype, cells) ==
    [df EXCEPT !.dtypes[j] = dtype,
               !.rows = [i \in 1..NRows(df) |-> [df.rows[i] EXCEPT ![j] = cells[i]]]]

CountNA(cells) == Cardinality({i \in 1..Len(cells) : IsNA(cells[i])})
AnyNA(cells) == \E i \in 1..Len(cells) : IsNA(cells[i])
NonNA(cells) == {cells[i] : i \in {p \in 1..Len(cells) : ~IsNA(cells[p])}}
Count(cells, v) == Cardinality({i \in 1..Len(cells) : cells[i] = v})

\* Series.fillna(v): fillna(NaN) leaves the column as it is
FillNA(cells, v) == [i \in 1..Len(cells) |-> IF IsNA(cells[i]) THEN v ELSE cells[i]]

(***************************************************************************)
(* clean_dataset                                                           *)
(***************************************************************************)
\* df.drop_duplicates(): a row equal in every column to an earlier row is
\* dropped (Missing equals Missing); the kept rows keep their index labels
drop_duplicates(df) ==
    SelectRows(df, {i \in 1..NRows(df) :
                       \A j \in 1..(i - 1) : df.rows[j] # df.rows[i]})

\* the numbers of a set in ascending order
RECURSIVE SortedNums(_)
SortedNums(S) ==
    IF S = {} THEN <<>>
    ELSE LET m == CHOOSE x \in S : \A y \in S : ~NumLess(y, x)
         IN <<m>> \o SortedNums(S \ {m})

\* the non-missing cells of a column in ascending order, with repetitions
RECURSIVE SortedValues(_, _)
SortedValues(cells, order) ==
    IF order = <<>> THEN <<>>
    ELSE [i \in 1..Count(cells, Head(order)) |-> Head(order)]
             \o SortedValues(cells, Tail(order))

\* Series.median(): NaN for a column without values
Median(cells) ==
    LET vals == SortedValues(cells, SortedNums(NonNA(cells)))
        n == Len(vals)
    IN IF n = 0 THEN NA
       ELSE IF n % 2 = 1 THEN vals[(n + 1) \div 2]
       ELSE NumDivInt(NumAdd(vals[n \div 2], vals[n \div 2 + 1]), 2)

\* Series.mode(dropna=True): the most frequent values, sorted ascending
ModeValues(cells) ==
    {v \in NonNA(cells) : \A w \in NonNA(cells) : Count(cells, w) <= Count(cells, v)}

unknown == <<"u","n","k","n","o","w","n">>

\* TextFillValue taking the most frequent value that appears first
TextFillValueFirst(cells) ==
    LET modes == ModeValues(cells)
    IN IF modes = {} THEN Txt(unknown)
       ELSE cells[CHOOSE i \in 1..Len(cells) :
                    /\ cells[i] \in modes
                    /\ \A k \in 1..(i - 1) : cells[k] \notin modes]

\* fill_val = mode_series.iloc[0] if not mode_series.empty else "unknown"
TextFillValue(cells) ==
    LET modes == ModeValues(cells)
    IN IF modes = {} THEN Txt(unknown)
       ELSE CHOOSE v \in modes : \A w \in modes : ~CellLess(w, v)

\* one column of the imputation loop (lines 126-137)
FillColumn(df, j) ==
    LET cells == Column(df, j)
    IN IF ~AnyNA(cells) THEN cells
       ELSE IF is_numeric_dtype(df, j) THEN FillNA(cells, Median(cells))
       ELSE FillNA(cells, TextFillValue(cells))

\* the imputation loop: each column is filled from its own values
fill_missing(df) ==
    LET filled == [j \in 1..NCols(df) |-> FillColumn(df, j)]
    IN [df EXCEPT !.rows = [i \in 1..NRows(df) |->
                               [j \in 1..NCols(df) |-> filled[j][i]]]]

RECURSIVE SumOver(_, _)
SumOver(S, f) ==
    IF S = {} THEN 0
    ELSE LET x == CHOOSE y \in S : TRUE IN f[x] + SumOver(S \ {x}, f)

filled_missing_numeric_of(df) ==
    SumOver({j \in 1..NCols(df) : is_numeric_dtype(df, j)},
            [j \in 1..NCols(df) |-> CountNA(Column(df, j))])

filled_missing_text_of(df) ==
    SumOver({j \in 1..NCols(df) : ~is_numeric_dtype(df, j)},
            [j \in 1..NCols(df) |-> CountNA(Column(df, j))])

date_kw == <<"d","a","t","e">>
time_kw == <<"t","i","m","e">>
timestamp_kw == <<"t","i","m","e","s","t","a","m","p">>

\* the guard of line 140.  The tables of this model carry no such label
\* (see NoDateLabels), so pd.to_datetime is never called on them.
IsDateLike(name) ==
    \E kw \in {date_kw, time_kw, timestamp_kw} : Contains(Lower(name), kw)

\* numerator and denominator of the 0.7 threshold of line 152
CoerceNum == 7
CoerceDen == 10

\* coerced.notna().mean() > 0.7 (the mean of an empty column is NaN: False)
CoercionAccepted(coerced) ==
    /\ Len(coerced) > 0
    /\ CoerceDen * (Len(coerced) - CountNA(coerced)) > CoerceNum * Len(coerced)

\* df[col].astype(str).str.lower() on a cell of an object column (after the
\* imputation loop an object column holds texts only)
LowerCell(c) == IF IsTxt(c) THEN Txt(Lower(c.s)) ELSE c

\* one column of the standardization loop (lines 139-155): its dtype and cells
StandardizeColumn(df, j) ==
    LET cells == Column(df, j)
        lowered == IF is_object_dtype(df, j)
                   THEN [i \in 1..Len(cells) |-> LowerCell(cells[i])]
                   ELSE cells
        coerced == [i \in 1..Len(cells) |-> ToNumericCell(lowered[i])]
    IN IF ~is_numeric_dtype(df, j) /\ CoercionAccepted(coerced)
       THEN [dtype |-> "numeric", cells |-> coerced]
       ELSE [dtype |-> df.dtypes[j], cells |-> lowered]

standardize(df) ==
    LET standard == [j \in 1..NCols(df) |-> StandardizeColumn(df, j)]
    IN [df EXCEPT !.dtypes = [j \in 1..NCols(df) |-> standard[j].dtype],
                  !.rows = [i \in 1..NRows(df) |->
                               [j \in 1..NCols(df) |-> standard[j].cells[i]]]]

\* mask_invalid with <= 0 in place of < 0
mask_invalid_nonpositive(df) ==
    {i \in 1..NRows(df) :
        \E j \in 1..NCols(df) : is_numeric_dtype(df, j) /\ IsNum(df.rows[i][j])
                                    /\ df.rows[i][j].n <= 0}

\* mask_invalid = (df[numeric_cols] < 0).any(axis=1)
mask_invalid(df) ==
    {i \in 1..NRows(df) :
        \E j \in 1..NCols(df) : is_numeric_dtype(df, j) /\ IsNegative(df.rows[i][j])}

\* df.loc[~mask_invalid]
remove_invalid(df) == SelectRows(df, (1..NRows(df)) \ mask_invalid(df))

\* df.rename(columns={c: to_snake_case(c) for c in df.columns})
rename_columns(df) ==
    [df EXCEPT !.names = [j \in 1..NCols(df) |-> to_snake_case(df.names[j])]]

ProcessingSummary(rb, rac, rat, rd, fmn, fmt, rir) ==
    [rows_before |-> rb, rows_after_cleaning |-> rac, rows_after_transform |-> rat,
     removed_duplicates |-> rd, filled_missing_numeric |-> fmn,
     filled_missing_text |-> fmt, removed_invalid_rows |-> rir]

\* CleanSummary with rows_before and rows_after_cleaning passed in each
\* other's place
CleanSummarySwapped(rb, rac, rd, fmn, fmt, rir) ==
    ProcessingSummary(rac, rb, rac, rd, fmn, fmt, rir)

\* the summary clean_dataset builds (lines 166-176): rows_after_transform
\* starts as rows_after_cleaning
CleanSummary(rb, rac, rd, fmn, fmt, rir) ==
    ProcessingSummary(rb, rac, rac, rd, fmn, fmt, rir)

\* clean_dataset(df): the returned DataFrame and summary.  The argument is
\* only read: line 121 rebinds df to a copy before anything is assigned.
clean_dataset(df) ==
    LET deduped == drop_duplicates(df)
        filled == fill_missing(deduped)
        standard == standardize(filled)
        valid == remove_invalid(standard)
        renamed == rename_columns(valid)
    IN [df |-> renamed,
        summary |-> CleanSummary(NRows(df), NRows(renamed),
                                 NRows(df) - NRows(deduped),
                                 filled_missing_numeric_of(deduped),
                                 filled_missing_text_of(deduped),
                                 Cardinality(mask_invalid(standard)))]

(***************************************************************************)
(* apply_transformations                                                   *)
(***************************************************************************)
price == <<"p","r","i","c","e">>
unit_price == <<"u","n","i","t","_","p","r","i","c","e">>
quantity == <<"q","u","a","n","t","i","t","y">>
qty == <<"q","t","y">>
product == <<"p","r","o","d","u","c","t">>
item == <<"i","t","e","m">>
category == <<"c","a","t","e","g","o","r","y">>
total == <<"t","o","t","a","l">>

\* next(..., None) found nothing; no column name of the candidate sets is empty
NoColumn == <<>>

\* price_col = next((c for c in cols if c in {...}), None), cols a set of str:
\* the iteration order of a set of strings is fixed by the per-process hash
\* seed, so with several matching columns any of them can come first
ColumnChoices(df, wanted) ==
    LET found == Range(df.names) \cap wanted
    IN IF found = {} THEN {NoColumn} ELSE found

\* pd.to_numeric(df[col], errors="coerce").fillna(0)
NumericOrZero(c) == IF IsNA(ToNumericCell(c)) THEN Num(0, 1) ELSE ToNumericCell(c)

\* the values assigned to df["total"] (lines 202-207)
total_values(df, price_col, qty_col) ==
    IF price_col # NoColumn /\ qty_col # NoColumn
    THEN [i \in 1..NRows(df) |->
             NumMul(NumericOrZero(df.rows[i][ColumnPos(df, price_col)]),
                    NumericOrZero(df.rows[i][ColumnPos(df, qty_col)]))]
    ELSE [i \in 1..NRows(df) |-> Num(1, 1)]

\* df["total"] = values, on the DataFrame object itself: an existing column is
\* overwritten in place, a new one is added as the last column
assign_total(df, values) ==
    IF HasColumn(df, total)
    THEN SetColumn(df, ColumnPos(df, total), "numeric", values)
    ELSE [df EXCEPT !.names = Append(df.names, total),
                    !.dtypes = Append(df.dtypes, "numeric"),
                    !.rows = [i \in 1..NRows(df) |-> Append(df.rows[i], values[i])]]

GroupCandidates == <<product, item, category>>

\* lines 209-216: the first candidate, in the order of the candidate list,
\* that is a column; else the first column
RECURSIVE FirstPresent(_, _)
FirstPresent(df, candidates) ==
    IF candidates = <<>> THEN NoColumn
    ELSE IF HasColumn(df, Head(candidates)) THEN Head(candidates)
    ELSE FirstPresent(df, Tail(candidates))

\* group_column taking the first column of the table that is a candidate
group_column_table_order(df) ==
    IF \E j \in 1..NCols(df) : df.names[j] \in Range(GroupCandidates)
    THEN df.names[CHOOSE j \in 1..NCols(df) :
                     /\ df.names[j] \in Range(GroupCandidates)
                     /\ \A k \in 1..(j - 1) : df.names[k] \notin Range(GroupCandidates)]
    ELSE df.names[1]

group_column(df) ==
    IF FirstPresent(df, GroupCandidates) # NoColumn
    THEN FirstPresent(df, GroupCandidates)
    ELSE df.names[1]

\* the cells of a set in ascending order
RECURSIVE SortedCells(_)
SortedCells(S) ==
    IF S = {} THEN <<>>
    ELSE LET m == CHOOSE x \in S : \A y \in S : ~CellLess(y, x)
         IN <<m>> \o SortedCells(S \ {m})

RECURSIVE SumCells(_, _)
SumCells(cells, rowset) ==
    IF rowset = {} THEN Num(0, 1)
    ELSE LET i == CHOOSE r \in rowset : TRUE
         IN NumAdd(cells[i], SumCells(cells, rowset \ {i}))

\* one row of df.groupby(group_col).agg(sum, mean, count) over "total"
GroupRow(df, gpos, tpos, key) ==
    LET members == {i \in 1..NRows(df) : df.rows[i][gpos] = key}
        totals == Column(df, tpos)
    IN [key |-> key,
        total_sales |-> ToNumericCell(SumCells(totals, members)),
        avg_total |-> ToNumericCell(NumDivInt(SumCells(totals, members),
                                              Cardinality(members))),
        count_rows |-> Cardinality(members)]

\* lines 218-226 and 232-234: groupby with its defaults (dropna=True,
\* sort=True) has one row per non-missing key, in ascending key order
group_by(df, group_col) ==
    LET gpos == ColumnPos(df, group_col)
        tpos == ColumnPos(df, total)
        keys == SortedCells(NonNA(Column(df, gpos)))
    IN [key_name |-> group_col,
        rows |-> [g \in 1..Len(keys) |-> GroupRow(df, gpos, tpos, keys[g])]]

\* df[df["total"] > 0]
filter_positive(df) ==
    SelectRows(df, {i \in 1..NRows(df) : IsPositive(df.rows[i][ColumnPos(df, total)])})

RowOrders(n) ==
    {f \in [1..n -> 1..n] : \A i, j \in 1..n : f[i] = f[j] => i = j}

\* df.sort_values("total", ascending=False): kind defaults to "quicksort",
\* which numpy and pandas document as not stable, so rows of equal total may
\* come out in any order
sort_values_desc(df) ==
    LET tpos == ColumnPos(df, total)
    IN {TakeRows(df, f) : f \in
          {g \in RowOrders(NRows(df)) :
              \A i \in 1..(NRows(df) - 1) :
                  ~NumLess(df.rows[g[i]][tpos], df.rows[g[i + 1]][tpos])}}

(***************************************************************************)
(* cleaned_output.csv                                                      *)
(***************************************************************************)
\* df.to_csv(path, index=False): the header and the cells, row by row; the
\* index labels and the dtypes are not written
to_csv(df) == [names |-> df.names, rows |-> df.rows]

\* the dtype pd.read_csv infers for column j of a file: numeric when there is
\* a row and every field is empty or a number, else object
InferredDtype(file, j) ==
    IF /\ Len(file.rows) > 0
       /\ \A i \in 1..Len(file.rows) :
              LET c == file.rows[i][j]
              IN IsNA(c) \/ IsNum(c) \/ (IsTxt(c) /\ IsNumericText(c.s))
    THEN "numeric" ELSE "object"

\* pd.read_csv(path): a fresh RangeIndex, dtypes inferred column by column
read_csv(file) ==
    DataFrame(file.names,
              [j \in 1..Len(file.names) |-> InferredDtype(file, j)],
              [i \in 1..Len(file.rows) |-> i - 1],
              [i \in 1..Len(file.rows) |->
                  [j \in 1..Len(file.names) |->
                      IF InferredDtype(file, j) = "numeric"
                      THEN ToNumericCell(file.rows[i][j])
                      ELSE file.rows[i][j]]])

(***************************************************************************)
(* generate_ai_analysis                                                    *)
(***************************************************************************)
api_key_kw == <<"a","p","i"," ","k","e","y">>
permission_kw == <<"p","e","r","m","i","s","s","i","o","n">>
rate_kw == <<"r","a","t","e">>
quota_kw == <<"q","u","o","t","a">>
resource_exhausted_kw == <<"r","e","s","o","u","r","c","e"," ","e","x","h","a","u","s","t","e","d">>
network_kw == <<"n","e","t","w","o","r","k">>
connection_kw == <<"c","o","n","n","e","c","t","i","o","n">>
timed_out_kw == <<"t","i","m","e","d"," ","o","u","t">>

AiReport(text, exc) == [text |-> text, exc |-> exc]

\* the except branch of lines 351-363: the placeholder for an exception text
classify_error(exc) ==
    LET message == Lower(exc)
    IN IF Contains(message, api_key_kw) \/ Contains(message, permission_kw)
       THEN AiReport("AI authentication error: invalid or missing API key.", <<>>)
       ELSE IF \/ Contains(message, rate_kw) \/ Contains(message, quota_kw)
               \/ Contains(message, resource_exhausted_kw)
       THEN AiReport("AI rate limit or quota reached. Please retry later.", <<>>)
       ELSE IF \/ Contains(message, network_kw) \/ Contains(message, connection_kw)
               \/ Contains(message, timed_out_kw)
       THEN AiReport("AI connection error: check your internet connection.", <<>>)
       ELSE AiReport("AI analysis failed: ", exc)

ClientUnavailable ==
    AiReport("AI analysis unavailable: Gemini client not initialized. Check installation and API key (GEMINI_API_KEY/GOOGLE_API_KEY).", <<>>)

\* what the summarizer and its environment can do in one call of
\* generate_ai_analysis: no client (SDK or key missing, constructor raised),
\* build_ai_prompt raises (to_markdown needs the optional tabulate package),
\* generate_content raises with some text, or a response comes back
ErrorTexts ==
    {<<"A","P","I"," ","k","e","y"," ","n","o","t"," ","v","a","l","i","d">>, <<"Q","u","o","t","a"," ","e","x","c","e","e","d","e","d">>, <<"C","o","n","n","e","c","t","i","o","n"," ","r","e","s","e","t">>,
     <<"R","e","a","d"," ","t","i","m","e","d"," ","o","u","t">>, <<"b","o","o","m">>, <<"N","o"," ","p","e","r","m","i","s","s","i","o","n"," ","a","t"," ","t","h","i","s"," ","r","a","t","e">>}

SummarizerOutcomes ==
    {[step |-> "client", exc |-> <<>>], [step |-> "prompt", exc |-> <<>>],
     [step |-> "response", exc |-> <<>>]}
    \cup {[step |-> "call", exc |-> e] : e \in ErrorTexts}

\* generate_ai_analysis under an outcome: the text returned, or a raise
generate_ai_analysis(outcome) ==
    IF outcome.step = "client" THEN [raised |-> FALSE, value |-> ClientUnavailable]
    ELSE IF outcome.step = "prompt" THEN [raised |-> TRUE, value |-> AiReport("", <<>>)]
    ELSE IF outcome.step = "call"
    THEN [raised |-> FALSE, value |-> classify_error(outcome.exc)]
    ELSE [raised |-> FALSE, value |-> AiReport("<response text>", <<>>)]

(***************************************************************************)
(* The inputs of the model                                                 *)
(***************************************************************************)
NumberCells == {NA, Num(-1, 1), Num(0, 1), Num(1, 1), Num(2, 1)}
TextCells == {NA, Txt(<<"a">>), Txt(<<"b">>), Txt(<<"A">>), Txt(<<"1">>), Txt(<<"-","1">>)}

FewNumberCells == {NA, Num(-1, 1), Num(1, 1)}
FewTextCells == {NA, Txt(<<"a">>), Txt(<<"A">>)}

\* the fields of an existing cleaned_output.csv
FieldCells == {NA, Num(0, 1), Num(1, 1), Num(2, 1), Txt(<<"a">>)}
KeyCells == {NA, Txt(<<"a">>), Txt(<<"b">>)}

ItemNameLabel == <<"I","t","e","m"," ","N","a","m","e">>
UnitPriceLabel == <<"U","n","i","t"," "," ","P","r","i","c","e","!">>
QtyLabel == <<" ","Q","T","Y">>
name_col == <<"n","a","m","e">>

Col(name, cells) == [name |-> name, cells |-> cells]

\* the rows over a header: one cell per column, from the column's cells
RowsOver(header) ==
    {r \in [1..Len(header) -> UNION {header[j].cells : j \in 1..Len(header)}] :
        \A j \in 1..Len(header) : r[j] \in header[j].cells}

\* the dtype the loader gives a column: numeric for numbers, object for texts
\* (a text cell of a spreadsheet stays a text even when it spells a number)
LoadedDtype(cells) == IF \A c \in cells : IsNA(c) \/ IsNum(c) THEN "numeric" ELSE "object"

\* the DataFrame load_dataset returns for the rows of a file over a header
LoadedTable(header, rows) ==
    DataFrame([j \in 1..Len(header) |-> header[j].name],
              [j \in 1..Len(header) |-> LoadedDtype(header[j].cells)],
              [i \in 1..Len(rows) |-> i - 1],
              rows)

\* the headers of the tables clean_dataset is checked on
CleanHeaders ==
    {<<Col(ItemNameLabel, TextCells)>>,
     <<Col(UnitPriceLabel, NumberCells)>>,
     <<Col(ItemNameLabel, TextCells), Col(UnitPriceLabel, NumberCells)>>}

\* the headers of the input files the whole program is run on
ProgramHeaders ==
    {<<Col(ItemNameLabel, FewTextCells)>>,
     <<Col(UnitPriceLabel, FewNumberCells), Col(QtyLabel, FewNumberCells)>>,
     <<Col(ItemNameLabel, FewTextCells), Col(UnitPriceLabel, FewNumberCells),
       Col(QtyLabel, FewNumberCells)>>}

\* the headers of the cleaned_output.csv files options 2 and 3 are run on
CsvHeaders ==
    {<<Col(name_col, KeyCells)>>,
     <<Col(price, FieldCells), Col(quantity, FieldCells)>>,
     <<Col(item, KeyCells), Col(product, KeyCells)>>,
     <<Col(category, KeyCells), Col(item, KeyCells)>>,
     <<Col(unit_price, FewNumberCells), Col(price, FewNumberCells),
       Col(qty, FewNumberCells)>>,
     <<Col(price, FewNumberCells), Col(quantity, FewNumberCells),
       Col(qty, FewNumberCells)>>}

\* no label of an input carries a keyword of line 140
NoDateLabels(df) == \A j \in 1..NCols(df) : ~IsDateLike(df.names[j])

(***************************************************************************)
(* cli_menu and run_full_pipeline                                          *)
(***************************************************************************)
CHART_PATH == [path |-> "top_products.png"]

ClearLocals ==
    /\ choice' = 0
    /\ df_raw' = None
    /\ df_clean' = None
    /\ df_transformed' = None
    /\ grouped' = None
    /\ summary' = None
    /\ ai_report' = None
    /\ chart_path' = None
    /\ pdf' = None
    /\ error' = None

\* the input path holds a table over one of the headers, within MaxCells
InputOver(headers) ==
    \E h \in headers : \E r \in 0..(MaxCells \div Len(h)) :
        \E rows \in [1..r -> RowsOver(h)] :
            /\ input_file = LoadedTable(h, rows)
            /\ NoDateLabels(input_file)

\* cleaned_output.csv holds rows over one of the headers, within MaxCells
CleanedFileOver(headers) ==
    \E h \in headers : \E r \in 0..(MaxCells \div Len(h)) :
        \E rows \in [1..r -> RowsOver(h)] :
            csv_file = [names |-> [j \in 1..Len(h) |-> h[j].name], rows |-> rows]

\* the program starts at the menu, nothing loaded or computed yet
AtMenu ==
    /\ pc = "menu"
    /\ choice = 0
    /\ chart_file = FALSE
    /\ df_raw = None
    /\ df_clean = None
    /\ df_transformed = None
    /\ grouped = None
    /\ summary = None
    /\ ai_report = None
    /\ chart_path = None
    /\ pdf = None
    /\ error = None
    /\ df_reclean = None
    /\ summary2 = None

\* choice == "1": run_full_pipeline(DEFAULT_INPUT_PATH)
ChooseFullPipeline ==
    /\ pc = "menu"
    /\ pc' = "load"
    /\ choice' = 1
    /\ UNCHANGED <<input_file, csv_file, chart_file, df_raw, df_clean, df_transformed,
                   grouped, summary, ai_report, chart_path, pdf, error, df_reclean,
                   summary2>>

\* lines 449-452: FileNotFoundError when the input is absent, else load_dataset
LoadDataset ==
    /\ pc = "load"
    /\ IF input_file = NoFile
       THEN /\ error' = [exc |-> "FileNotFoundError"]
            /\ pc' = "failed"
            /\ UNCHANGED df_raw
       ELSE /\ df_raw' = input_file
            /\ pc' = "clean"
            /\ UNCHANGED error
    /\ UNCHANGED <<choice, input_file, csv_file, chart_file, df_clean, df_transformed,
                   grouped, summary, ai_report, chart_path, pdf, df_reclean, summary2>>

\* line 453: df_clean, summary = clean_dataset(df_raw)
CleanDataset ==
    /\ pc = "clean"
    /\ LET result == clean_dataset(df_raw)
       IN df_clean' = result.df /\ summary' = result.summary
    /\ pc' = "save"
    /\ UNCHANGED <<choice, input_file, csv_file, chart_file, df_raw, df_transformed,
                   grouped, ai_report, chart_path, pdf, error, df_reclean, summary2>>

\* line 455: df_clean.to_csv(CLEANED_OUTPUT_PATH, index=False)
SaveCleaned ==
    /\ pc = "save"
    /\ csv_file' = to_csv(df_clean)
    /\ pc' = "transform"
    /\ UNCHANGED <<choice, input_file, chart_file, df_raw, df_clean, df_transformed,
                   grouped, summary, ai_report, chart_path, pdf, error, df_reclean,
                   summary2>>

\* the summary options 2 and 3 build for a table read from the file
FromCleanedSummary(df) ==
    ProcessingSummary(NRows(df), NRows(df), NRows(df), 0, 0, 0, 0)

\* choice == "2" (c = 2) and choice == "3" (c = 3), up to the call of
\* apply_transformations: without the file the menu is shown again
ChooseFromCleaned(c) ==
    /\ pc = "menu"
    /\ IF csv_file = NoFile
       THEN UNCHANGED <<pc, choice, df_clean, summary>>
       ELSE /\ df_clean' = read_csv(csv_file)
            /\ summary' = FromCleanedSummary(read_csv(csv_file))
            /\ choice' = c
            /\ pc' = "transform"
    /\ UNCHANGED <<input_file, csv_file, chart_file, df_raw, df_transformed, grouped,
                   ai_report, chart_path, pdf, error, df_reclean, summary2>>

\* apply_transformations(df_clean, summary): df["total"] is assigned on the
\* caller's DataFrame object, the filtered and sorted copy is returned, and
\* the caller's summary object is updated (lines 198-239)
ApplyTransformations ==
    /\ pc = "transform"
    /\ \E price_col \in ColumnChoices(df_clean, {price, unit_price}),
          qty_col \in ColumnChoices(df_clean, {quantity, qty}) :
          LET df == assign_total(df_clean, total_values(df_clean, price_col, qty_col))
          IN \E sorted \in sort_values_desc(filter_positive(df)) :
                /\ df_clean' = df
                /\ grouped' = group_by(df, group_column(df))
                /\ df_transformed' = sorted
                /\ summary' = [summary EXCEPT !.rows_after_transform = NRows(sorted)]
    /\ pc' = IF choice = 1 THEN "chart" ELSE "ai"
    /\ UNCHANGED <<choice, input_file, csv_file, chart_file, df_raw, ai_report,
                   chart_path, pdf, error, df_reclean, summary2>>

\* line 460: generate_bar_chart(grouped, CHART_PATH)
GenerateBarChart ==
    /\ pc = "chart"
    /\ IF grouped.rows = <<>>
       THEN chart_path' = None /\ UNCHANGED chart_file
       ELSE chart_path' = CHART_PATH /\ chart_file' = TRUE
    /\ pc' = "ai"
    /\ UNCHANGED <<choice, input_file, csv_file, df_raw, df_clean, df_transformed,
                   grouped, summary, ai_report, pdf, error, df_reclean, summary2>>

\* lines 462, 506, 526: ai_report = generate_ai_analysis(...); an exception
\* leaves the pipeline, a returned text goes on to the export (or, under
\* option 2, is printed)
GenerateAiAnalysis ==
    /\ pc = "ai"
    /\ \E outcome \in SummarizerOutcomes :
          IF generate_ai_analysis(outcome).raised
          THEN /\ error' = [exc |-> "summarizer"]
               /\ pc' = "failed"
               /\ UNCHANGED ai_report
          ELSE /\ ai_report' = generate_ai_analysis(outcome).value
               /\ pc' = IF choice = 2 THEN "return" ELSE "export"
               /\ UNCHANGED error
    /\ UNCHANGED <<choice, input_file, csv_file, chart_file, df_raw, df_clean,
                   df_transformed, grouped, summary, chart_path, pdf, df_reclean,
                   summary2>>

\* lines 464, 527: export_pdf_report; the chart page is added when the path
\* is given and the file exists
ExportPdfReport ==
    /\ pc = "export"
    /\ pdf' = [summary |-> summary, grouped |-> grouped, ai_report |-> ai_report,
               chart |-> IF choice = 3 THEN chart_file
                         ELSE chart_path # None /\ chart_file]
    /\ pc' = "return"
    /\ UNCHANGED <<choice, input_file, csv_file, chart_file, df_raw, df_clean,
                   df_transformed, grouped, summary, ai_report, chart_path, error,
                   df_reclean, summary2>>

\* the option is done: back to the menu, the locals are gone
ReturnToMenu ==
    /\ pc = "return"
    /\ pc' = "menu"
    /\ ClearLocals
    /\ UNCHANGED <<input_file, csv_file, chart_file, df_reclean, summary2>>

\* except Exception as exc: logging.error(...), and the menu is shown again
LogError ==
    /\ pc = "failed"
    /\ pc' = "menu"
    /\ ClearLocals
    /\ UNCHANGED <<input_file, csv_file, chart_file, df_reclean, summary2>>

\* choice == "4"
Exit ==
    /\ pc = "menu"
    /\ pc' = "exit"
    /\ UNCHANGED <<choice, input_file, csv_file, chart_file, df_raw, df_clean,
                   df_transformed, grouped, summary, ai_report, chart_path, pdf, error,
                   df_reclean, summary2>>

\* clean_dataset called again on the table it returned
CleanAgain ==
    /\ pc = "save"
    /\ LET result == clean_dataset(df_clean)
       IN df_reclean' = result.df /\ summary2' = result.summary
    /\ pc' = "recleaned"
    /\ UNCHANGED <<choice, input_file, csv_file, chart_file, df_raw, df_clean,
                   df_transformed, grouped, summary, ai_report, chart_path, pdf, error>>

\* the program: cli_menu over an input file that may be absent
Init ==
    /\ input_file = NoFile \/ InputOver(ProgramHeaders)
    /\ csv_file = NoFile
    /\ AtMenu

Next ==
    \/ ChooseFullPipeline
    \/ LoadDataset
    \/ CleanDataset
    \/ SaveCleaned
    \/ \E c \in {2, 3} : ChooseFromCleaned(c)
    \/ ApplyTransformations
    \/ GenerateBarChart
    \/ GenerateAiAnalysis
    \/ ExportPdfReport
    \/ ReturnToMenu
    \/ LogError
    \/ Exit

Spec == Init /\ [][Next]_vars

\* clean_dataset on loaded tables, and again on its own result
InitClean ==
    /\ InputOver(CleanHeaders)
    /\ csv_file = NoFile
    /\ AtMenu

NextClean ==
    \/ ChooseFullPipeline
    \/ LoadDataset
    \/ CleanDataset
    \/ CleanAgain

SpecClean == InitClean /\ [][NextClean]_vars

\* options 2 and 3 over an existing cleaned_output.csv, up to the return of
\* apply_transformations
InitTransform ==
    /\ input_file = NoFile
    /\ CleanedFileOver(CsvHeaders)
    /\ AtMenu

NextTransform ==
    \/ \E c \in {2, 3} : ChooseFromCleaned(c)
    \/ ApplyTransformations

SpecTransform == InitTransform /\ [][NextTransform]_vars

(***************************************************************************)
(* The claims                                                              *)
(***************************************************************************)
\* C1: whenever a summary exists (returned by clean_dataset, built by option
\* 2 or 3, or updated by apply_transformations), rows_after_cleaning <=
\* rows_before and rows_after_transform <= rows_after_cleaning.
C1_RowCountsShrink ==
    summary # None =>
        /\ summary.rows_after_cleaning <= summary.rows_before
        /\ summary.rows_after_transform <= summary.rows_after_cleaning

\* C1 witness: the full pipeline has cleaned and transformed a table, and both
\* stages removed rows.
C1_Witness ==
    /\ pc = "return"
    /\ choice = 1
    /\ summary.rows_after_cleaning < summary.rows_before
    /\ summary.rows_after_transform < summary.rows_after_cleaning

\* C2: cleaning the cleaned table again returns it unchanged with all four
\* counts zero, and the first result has no Missing cell, no two equal rows
\* and no negative numeric cell.
C2_CleanIdempotent ==
    pc = "recleaned" =>
        /\ df_reclean = df_clean
        /\ summary2.removed_duplicates = 0
        /\ summary2.filled_missing_numeric = 0
        /\ summary2.filled_missing_text = 0
        /\ summary2.removed_invalid_rows = 0
        /\ \A i \in 1..NRows(df_clean) : \A j \in 1..NCols(df_clean) :
              /\ ~IsNA(df_clean.rows[i][j])
              /\ ~(df_clean.dtypes[j] = "numeric" /\ IsNegative(df_clean.rows[i][j]))
        /\ \A i, k \in 1..NRows(df_clean) : i # k => df_clean.rows[i] # df_clean.rows[k]

\* C3: with S the table at the end of standardization, clean_dataset returns
\* exactly the rows of S that have no strictly negative cell in a numeric
\* column of S, in their order, and removed_invalid_rows counts the others.
C3_InvalidRowsRemoved ==
    pc = "save" =>
        LET S == standardize(fill_missing(drop_duplicates(df_raw)))
            kept == {i \in 1..NRows(S) :
                        \A j \in 1..NCols(S) :
                            S.dtypes[j] = "numeric" =>
                                ~(S.rows[i][j].k = "num" /\ S.rows[i][j].n < 0)}
        IN /\ \A p \in 1..NRows(df_clean) : \A j \in 1..NCols(df_clean) :
                 df_clean.dtypes[j] = "numeric" =>
                     ~(df_clean.rows[p][j].k = "num" /\ df_clean.rows[p][j].n < 0)
           /\ df_clean.dtypes = S.dtypes
           /\ NRows(df_clean) = Cardinality(kept)
           /\ \A i \in kept : \E p \in 1..NRows(df_clean) :
                 df_clean.index[p] = S.index[i] /\ df_clean.rows[p] = S.rows[i]
           /\ \A p, q \in 1..NRows(df_clean) :
                 p < q => df_clean.index[p] < df_clean.index[q]
           /\ summary.removed_invalid_rows = NRows(S) - Cardinality(kept)

\* C3 witness: a text column was coerced to numeric, a row with a negative
\* value in it was removed and another row was kept.
C3_Witness ==
    /\ pc = "save"
    /\ \E j \in 1..NCols(df_raw) :
          df_raw.dtypes[j] = "object" /\ df_clean.dtypes[j] = "numeric"
    /\ summary.removed_invalid_rows > 0
    /\ NRows(df_clean) > 0

\* the most frequent non-missing values of a column, by position
TopPositions(cells) ==
    LET present == {i \in 1..Len(cells) : ~IsNA(cells[i])}
        freq(i) == Cardinality({k \in present : cells[k] = cells[i]})
    IN {i \in present : \A k \in present : freq(k) <= freq(i)}

\* the columns the text imputation fills: non-numeric, with a Missing cell
TextColumnsToFill(df) ==
    {j \in 1..NCols(df) :
        df.dtypes[j] # "numeric" /\ \E i \in 1..NRows(df) : IsNA(df.rows[i][j])}

\* the most frequent value that appears first in row order
FirstTop(cells) ==
    IF TopPositions(cells) = {} THEN Txt(unknown)
    ELSE cells[CHOOSE i \in TopPositions(cells) : \A k \in TopPositions(cells) : i <= k]

\* the smallest, in str order, of the most frequent values
SmallestTop(cells) ==
    IF TopPositions(cells) = {} THEN Txt(unknown)
    ELSE cells[CHOOSE i \in TopPositions(cells) :
                  \A k \in TopPositions(cells) : ~TextLess(cells[k].s, cells[i].s)]

\* what C4 says of a table D and its imputed table F when fill[j] is the
\* fill value of column j
TextImputation(D, F, fill) ==
    /\ \A j \in TextColumnsToFill(D) : \A i \in 1..NRows(D) :
          F.rows[i][j] = IF IsNA(D.rows[i][j]) THEN fill[j] ELSE D.rows[i][j]
    /\ summary.filled_missing_text =
          Cardinality({ij \in (1..NRows(D)) \X TextColumnsToFill(D) :
                          IsNA(D.rows[ij[1]][ij[2]])})

\* C4 as stated: the Missing cells of a non-numeric column get its most
\* frequent value, on a tie the one that appears first in row order,
\* "unknown" when the column has no value; filled_missing_text counts them.
C4_FirstAppearance ==
    pc = "save" =>
        LET D == drop_duplicates(df_raw)
        IN TextImputation(D, fill_missing(D),
                          [j \in TextColumnsToFill(D) |-> FirstTop(Column(D, j))])

\* C4 as amended: on a tie the fill value is the smallest of the most
\* frequent texts in str order.
C4_SmallestMode ==
    pc = "save" =>
        LET D == drop_duplicates(df_raw)
        IN TextImputation(D, fill_missing(D),
                          [j \in TextColumnsToFill(D) |-> SmallestTop(Column(D, j))])

\* C4 witness: a text column with a Missing cell was filled where two values
\* tie and the one appearing first is not the smallest.
C4_Witness ==
    /\ pc = "save"
    /\ \E j \in TextColumnsToFill(drop_duplicates(df_raw)) :
          LET cells == Column(drop_duplicates(df_raw), j)
          IN /\ TopPositions(cells) # {}
             /\ FirstTop(cells) # SmallestTop(cells)
             /\ \E i \in 1..Len(cells) :
                   /\ IsNA(cells[i])
                   /\ fill_missing(drop_duplicates(df_raw)).rows[i][j] = SmallestTop(cells)

\* the total column of the table apply_transformations assigned it on
TotalOf(df) == Column(df, ColumnPos(df, total))

\* C5: the aggregate has exactly one row per distinct value of the grouping
\* column of the table before the filter, Missing included, with the sum,
\* mean and count of total over the group's rows; count_rows add up to the
\* number of rows.
C5_AggregatePerGroup ==
    pc = "ai" =>
        LET gpos == ColumnPos(df_clean, grouped.key_name)
            keys == {df_clean.rows[i][gpos] : i \in 1..NRows(df_clean)}
            members(key) == {i \in 1..NRows(df_clean) : df_clean.rows[i][gpos] = key}
        IN /\ {grouped.rows[g].key : g \in 1..Len(grouped.rows)} = keys
           /\ Len(grouped.rows) = Cardinality(keys)
           /\ \A g \in 1..Len(grouped.rows) :
                 LET row == grouped.rows[g]
                     sum == SumCells(TotalOf(df_clean), members(row.key))
                 IN /\ row.total_sales = sum
                    /\ row.count_rows = Cardinality(members(row.key))
                    /\ NumMul(row.avg_total, Num(row.count_rows, 1)) = sum
           /\ SumOver(1..Len(grouped.rows),
                      [g \in 1..Len(grouped.rows) |-> grouped.rows[g].count_rows])
                 = NRows(df_clean)

\* C6: the returned table holds exactly the rows with total > 0, by total
\* descending, rows of equal total in their input order.
C6_StableDescending ==
    pc = "ai" =>
        LET tpos == ColumnPos(df_clean, total)
            positive == {i \in 1..NRows(df_clean) : IsPositive(df_clean.rows[i][tpos])}
        IN /\ NRows(df_transformed) = Cardinality(positive)
           /\ \A i \in positive : \E p \in 1..NRows(df_transformed) :
                 /\ df_transformed.index[p] = df_clean.index[i]
                 /\ df_transformed.rows[p] = df_clean.rows[i]
           /\ \A p \in 1..(NRows(df_transformed) - 1) :
                 \/ NumLess(df_transformed.rows[p + 1][tpos], df_transformed.rows[p][tpos])
                 \/ /\ df_transformed.rows[p + 1][tpos] = df_transformed.rows[p][tpos]
                    /\ df_transformed.index[p] < df_transformed.index[p + 1]

\* C7 as stated: the grouping column is the first column, in column order,
\* named product, item or category; without one, the first column.
C7_TableOrder ==
    pc = "ai" =>
        LET hits == {j \in 1..NCols(df_clean) :
                        df_clean.names[j] \in {product, item, category}}
        IN grouped.key_name =
              IF hits = {} THEN df_clean.names[1]
              ELSE df_clean.names[CHOOSE j \in hits : \A k \in hits : j <= k]

\* C7 as amended: the grouping column is product when the table has it, else
\* item when it has it, else category when it has it, else the first column.
C7_CandidateOrder ==
    pc = "ai" =>
        LET has(name) == \E j \in 1..NCols(df_clean) : df_clean.names[j] = name
        IN /\ has(product) => grouped.key_name = product
           /\ ~has(product) /\ has(item) => grouped.key_name = item
           /\ ~has(product) /\ ~has(item) /\ has(category) => grouped.key_name = category
           /\ ~has(product) /\ ~has(item) /\ ~has(category) =>
                 grouped.key_name = df_clean.names[1]

\* C7 witness: item stands before product in the table and the aggregate is
\* keyed by product.
C7_Witness ==
    /\ pc = "ai"
    /\ \E j, k \in 1..NCols(df_clean) :
          j < k /\ df_clean.names[j] = item /\ df_clean.names[k] = product
    /\ grouped.key_name = product
    /\ Len(grouped.rows) > 0

\* C8: total is a function of the table: with P the first match among price,
\* unit_price and Q the first among quantity, qty ("first" read in column
\* order, or in the order the names are listed), total is
\* numeric(P, 0) * numeric(Q, 0) in each row, and 1 when P or Q is absent.
C8_TotalIsFunctionOfTable ==
    pc = "ai" =>
        LET inTable(wanted) ==
                LET hits == {j \in 1..NCols(df_clean) : df_clean.names[j] \in wanted}
                IN IF hits = {} THEN 0 ELSE CHOOSE j \in hits : \A k \in hits : j <= k
            asListed(names) ==
                IF HasColumn(df_clean, names[1]) THEN ColumnPos(df_clean, names[1])
                ELSE IF HasColumn(df_clean, names[2]) THEN ColumnPos(df_clean, names[2])
                ELSE 0
            number(c) == IF IsNum(c) THEN c
                         ELSE IF IsTxt(c) /\ IsNumericText(c.s) THEN ParseNumber(c.s)
                         ELSE Num(0, 1)
            totals(P, Q) ==
                [i \in 1..NRows(df_clean) |->
                    IF P = 0 \/ Q = 0 THEN Num(1, 1)
                    ELSE NumMul(number(df_clean.rows[i][P]), number(df_clean.rows[i][Q]))]
        IN \/ TotalOf(df_clean) = totals(inTable({price, unit_price}),
                                         inTable({quantity, qty}))
           \/ TotalOf(df_clean) = totals(asListed(<<price, unit_price>>),
                                         asListed(<<quantity, qty>>))

\* C9: no failure of the summarizer leaves the pipeline: generate_ai_analysis
\* returns a text, never raises.
C9_SummarizerNeverFatal ==
    error # [exc |-> "summarizer"]

\* C10: the caller's tables are not mutated: df_raw is the loaded table after
\* clean_dataset, and after apply_transformations df_clean is the table that
\* was passed in, without a total column.
C10_InputsNotMutated ==
    /\ pc \in {"save", "transform", "chart", "ai", "export", "return"} /\ choice = 1 =>
          df_raw = input_file
    /\ pc \in {"chart", "ai", "export", "return"} =>
          /\ ~HasColumn(df_clean, total)
          /\ df_clean = IF choice = 1 THEN clean_dataset(df_raw).df
                        ELSE read_csv(csv_file)

==========================================================================
